---------------------------- MODULE Spec2Model ----------------------------
(***************************************************************************)
(* State-machine model of ROM_Dump.ino: a Teensy 3.5 that seizes the bus   *)
(* of a NEC V20, reads every address once and appends each byte to a file  *)
(* CWMEMxxx.BIN on an SD card.                                             *)
(*                                                                         *)
(* The sketch is a single thread: setup() runs once, then loop() forever.  *)
(* The environment is the V20 (HLDAK, and the memory that answers a read), *)
(* the operator (serial input) and the SD card library (begin, exists,     *)
(* open, write, close may fail).                                           *)
(***************************************************************************)
EXTENDS Integers, Sequences, FiniteSets, TLC

(***************************************************************************)
(* Bounds.  The sketch reads addresses 0..0xFFFFF and names files 000..999;*)
(* the model keeps the code and shrinks the two ranges.                    *)
(***************************************************************************)
\* last address of the dump loop (0xFFFFF in the sketch, line 311)
MaxAddr == 1
\* last file number of the naming convention (999 in the sketch, line 153)
MaxFileNumber == 1

(***************************************************************************)
(* Program constants                                                       *)
(***************************************************************************)
ADDRESS_BUS_WIDTH == 20
DATA_BUS_WIDTH == 8

ASTB == 37
BUFEN == 38
BUFRW == 39
IOMEM == 14
WR == 15
HLDAK == 16
HLDRQ == 17
RD == 18

\* Arduino levels and pin modes
HIGH == "HIGH"
LOW == "LOW"
INPUT == "INPUT"
OUTPUT == "OUTPUT"

BUS_HOLD == HIGH
BUS_RELEASE == LOW
BUS_ACK == HIGH
BUS_NAK == LOW

\* Teensy pin of address/data line i is bus_pins[i + 1] (C index i)
bus_pins == << 25, 24, 12, 11, 10, 9, 8, 7, 6, 5, 4, 3, 2, 1, 0, 23, 22, 21, 20, 19 >>

ControlPins == { ASTB, BUFEN, BUFRW, IOMEM, RD, WR }
BusPins == { bus_pins[i] : i \in 1..ADDRESS_BUS_WIDTH }
Pins == BusPins \cup ControlPins \cup { HLDRQ, HLDAK }

\* the memory images the target may hold
TargetImages ==
    { [a \in 0..MaxAddr |-> (90 + 37 * a) % 256],
      [a \in 0..MaxAddr |-> (165 + 91 * a) % 256] }


VARIABLES
    pc,             \* position of the sketch in setup() / loop()
    file_number,    \* int file_number (line 147)
    filename,       \* char filename[] (line 148), a sequence of characters
    dumpfile,       \* File dumpfile (line 286): <<>> when not open, else the open file's name
    addr,           \* unsigned long addr of the dump loop (line 311)
    value,          \* byte value of bus_read_cycle (line 230)
    io,             \* Teensy pins: io.pins[p] is the mode and output latch of pin p, io.log the recorded pin operations
    hldak,          \* level the V20 puts on HLDAK
    card,           \* SD card: file name -> bytes of the file
    latchOnInput,   \* whether the core's digitalWrite on a pin in INPUT mode also sets the output latch
    mem,            \* the target's memory: address -> byte
    latched,        \* the address held by the target's address latch
    cycles,         \* history: addresses bus_read_cycle was called with in the current capture
    samples,        \* history: bytes bus_read_cycle returned in the current capture
    failed,         \* history: addresses whose dumpfile.write failed in the current capture
    opened,         \* history: one record per successful sd.open of the session
    serial          \* the lines printed on the USB serial port since power-up or, later, since the last capture began

vars == << pc, file_number, filename, dumpfile, addr, value, io, hldak, card,
           latchOnInput, mem, latched, cycles, samples, failed, opened, serial >>

\* Serial.print / Serial.println of one line
Say(line) == Append(serial, line)

\* line 288, the first statement of loop()
Prompt == "Hit Enter to dump the entire address space to a file."

(***************************************************************************)
(* Arduino pin primitives.  Every primitive also records itself in io.log, *)
(* the model's line recorder.                                              *)
(***************************************************************************)
pinMode(st, pin, m) ==
    [st EXCEPT !.pins[pin].mode = m,
               !.log = Append(@, << "pinMode", pin, m >>)]

\* On a pin in OUTPUT mode digitalWrite sets the output latch.  On a pin in
\* INPUT mode it configures the pull resistor; whether the output latch is
\* written too depends on the core (latchOnInput).
digitalWrite(st, pin, v) ==
    [st EXCEPT !.pins[pin] = IF @.mode = OUTPUT \/ latchOnInput
                             THEN [@ EXCEPT !.out = v] ELSE @,
               !.log = Append(@, << "digitalWrite", pin, v >>)]

\* ext is the level another device puts on the line
digitalRead(st, pin, ext) ==
    IF st.pins[pin].mode = OUTPUT THEN st.pins[pin].out ELSE ext

delayMicroseconds(st, us) ==
    [st EXCEPT !.log = Append(@, << "delayMicroseconds", us >>)]

\* the level of a line as seen from outside: "Z" when the pin does not drive it
Driven(st, pin) == st.pins[pin].mode = OUTPUT
LineLevel(st, pin) == IF Driven(st, pin) THEN st.pins[pin].out ELSE "Z"

\* bit i of n, and the C truth value !!x as a level
Bit(n, i) == (n \div (2 ^ i)) % 2
Level(b) == IF b # 0 THEN HIGH ELSE LOW

(***************************************************************************)
(* File names                                                              *)
(***************************************************************************)
Digits == << "0", "1", "2", "3", "4", "5", "6", "7", "8", "9" >>

\* printf's %0<width>d for n >= 0: the decimal digits of n, zero-padded on the
\* left to at least width characters
RECURSIVE FormatD(_, _)
FormatD(n, width) ==
    IF n < 10 /\ width <= 1
    THEN << Digits[n + 1] >>
    ELSE Append(FormatD(n \div 10, width - 1), Digits[(n % 10) + 1])

\* sprintf(filename, "CWMEM%03d.BIN", n)
sprintf_filename(n) ==
    << "C", "W", "M", "E", "M" >> \o FormatD(n, 3) \o << ".", "B", "I", "N" >>

\* The naming convention CWMEMxxx.BIN, xxx a decimal number from 000 to 999
SlotName(n) ==
    << "C", "W", "M", "E", "M",
       Digits[((n \div 100) % 10) + 1], Digits[((n \div 10) % 10) + 1], Digits[(n % 10) + 1],
       ".", "B", "I", "N" >>

\* a dump left on the card by an earlier session
PriorDump == [k \in 1..(MaxAddr + 1) |-> 255]

\* the card holding the dumps numbered in S
CardWith(S) == [f \in { SlotName(n) : n \in S } |-> PriorDump]

\* mutant of sd_exists: the test of the probe inverted
sd_exists_inverted(name) == name \notin DOMAIN card

sd_exists(name) == name \in DOMAIN card

(***************************************************************************)
(* next_file()                                                             *)
(***************************************************************************)
\* mutant of next_file_number: a number is skipped
next_file_number_skip(n) == n + 2

\* mutant of next_file_panics: the limit off by one
next_file_panics_late(n) == n > MaxFileNumber + 1

next_file_number(n) == n + 1
next_file_panics(n) == n > MaxFileNumber

\* pcAfter is where the caller continues when next_file returns
next_file(pcAfter) ==
    /\ file_number' = next_file_number(file_number)
    /\ IF next_file_panics(next_file_number(file_number))
       THEN /\ pc' = "halt_full"        \* while (1);  // panic
            /\ UNCHANGED filename
       ELSE /\ pc' = pcAfter
            /\ filename' = sprintf_filename(next_file_number(file_number))

(***************************************************************************)
(* Initial state: power-up, before setup()                                 *)
(***************************************************************************)
Init ==
    /\ pc = "setup"
    /\ file_number = 0
    /\ filename = << "C", "W", "M", "E", "M", "0", "0", "0", ".", "B", "I", "N" >>
    /\ dumpfile = << >>
    /\ addr = 0
    /\ value = 0
    /\ io = [pins |-> [p \in Pins |-> [mode |-> INPUT, out |-> LOW]], log |-> << >>]
    /\ hldak = BUS_NAK
    /\ card \in { CardWith(S) : S \in SUBSET (0..MaxFileNumber) }
    /\ latchOnInput \in BOOLEAN
    /\ mem \in TargetImages
    /\ latched = 0
    /\ cycles = << >>
    /\ samples = << >>
    /\ failed = { }
    /\ opened = << >>
    /\ serial = << >>

(***************************************************************************)
(* setup()                                                                 *)
(***************************************************************************)
\* lines 250-260
setup_pins(st) ==
    pinMode(digitalWrite(pinMode(st, HLDRQ, OUTPUT), HLDRQ, BUS_RELEASE), HLDAK, INPUT)

SetupPins ==
    /\ pc = "setup"
    /\ io' = setup_pins(io)
    /\ serial' = Say("Cadetwriter ROM dumper 0.2")        \* line 251
    /\ pc' = "sd_begin"
    /\ UNCHANGED << file_number, filename, dumpfile, addr, value, hldak, card,
                    latchOnInput, mem, latched, cycles, samples, failed, opened >>

\* lines 263-266: sd.begin() fails -> initErrorHalt
SdBegin ==
    /\ pc = "sd_begin"
    /\ \E ok \in BOOLEAN :
         IF ok
         THEN pc' = "probe" /\ UNCHANGED serial
         ELSE pc' = "halt_sd" /\ serial' = Say("SD card not working!")
    /\ UNCHANGED << file_number, filename, dumpfile, addr, value, io, hldak, card,
                    latchOnInput, mem, latched, cycles, samples, failed, opened >>

\* lines 269-271: one evaluation of the while condition, and the body if it holds
Probe ==
    /\ pc = "probe"
    /\ IF sd_exists(filename)
       THEN next_file("probe")
       ELSE /\ pc' = "setup_report"
            /\ UNCHANGED << file_number, filename >>
    /\ UNCHANGED << dumpfile, addr, value, io, hldak, card,
                    latchOnInput, mem, latched, cycles, samples, failed, opened, serial >>

\* lines 273-281: report the number of existing files, return from setup()
SetupReport ==
    /\ pc = "setup_report"
    /\ pc' = "prompt"
    /\ serial' = Say(Prompt)                              \* line 288
    /\ UNCHANGED << file_number, filename, dumpfile, addr, value, io, hldak, card,
                    latchOnInput, mem, latched, cycles, samples, failed, opened >>

(***************************************************************************)
(* Bus helpers                                                             *)
(***************************************************************************)
RECURSIVE tristate_pins_from(_, _, _)
tristate_pins_from(st, i, n) ==
    IF i >= n THEN st
    ELSE tristate_pins_from(pinMode(st, bus_pins[i + 1], INPUT), i + 1, n)

tristate_address_pins(st) == tristate_pins_from(st, 0, ADDRESS_BUS_WIDTH)

tristate_data_pins(st) == tristate_pins_from(st, 0, DATA_BUS_WIDTH)

RECURSIVE drive_address_from(_, _, _)
drive_address_from(st, a, i) ==
    IF i >= 20 THEN st
    ELSE drive_address_from(
             digitalWrite(pinMode(st, bus_pins[i + 1], OUTPUT),
                          bus_pins[i + 1], Level(Bit(a, i))),
             a, i + 1)

drive_address(st, a) == drive_address_from(st, a, 0)

\* d is the byte the addressed device puts on the data lines
RECURSIVE read_data_from(_, _, _, _)
read_data_from(st, d, i, val) ==
    IF i >= 8 THEN val
    ELSE read_data_from(st, d, i + 1,
             IF digitalRead(st, bus_pins[i + 1], Level(Bit(d, i))) = HIGH
             THEN val + (2 ^ i) ELSE val)

read_data(st, d) == read_data_from(st, d, 0, 0)

\* the digitalRead calls of read_data, as the line recorder sees them
RECURSIVE read_data_log_from(_, _)
read_data_log_from(st, i) ==
    IF i >= 8 THEN st
    ELSE read_data_log_from(
             [st EXCEPT !.log = Append(@, << "digitalRead", bus_pins[i + 1] >>)], i + 1)

read_data_log(st) == read_data_log_from(st, 0)

bus_state_driven_idle(st) ==
    LET s1 == pinMode(digitalWrite(st, BUFEN, HIGH), BUFEN, OUTPUT)
        s2 == pinMode(digitalWrite(s1, BUFRW, LOW), BUFRW, OUTPUT)
        s3 == pinMode(digitalWrite(s2, ASTB, LOW), ASTB, OUTPUT)
        s4 == pinMode(digitalWrite(s3, RD, HIGH), RD, OUTPUT)
        s5 == pinMode(digitalWrite(s4, WR, HIGH), WR, OUTPUT)
    IN  pinMode(digitalWrite(s5, IOMEM, LOW), IOMEM, OUTPUT)

\* defined by the sketch, called from nowhere in it
bus_state_not_driven(st) ==
    LET s1 == pinMode(st, BUFEN, INPUT)
        s2 == pinMode(s1, BUFRW, INPUT)
        s3 == pinMode(s2, ASTB, INPUT)
        s4 == pinMode(s3, RD, INPUT)
        s5 == pinMode(s4, WR, INPUT)
        s6 == pinMode(s5, IOMEM, INPUT)
    IN  tristate_address_pins(s6)

(***************************************************************************)
(* bus_read_cycle(address), one statement per step                         *)
(***************************************************************************)
\* mutant of rc_tristate: the whole bus released instead of the data lines
rc_tristate_whole_bus(st) == tristate_address_pins(st)

\* mutant of rc_bufen_high: the two closing statements in the other order
rc_bufen_high_swapped(st) == digitalWrite(st, RD, HIGH)

\* mutant of rc_drive_address: every bit one line too high
rc_drive_address_shifted(st, a) == drive_address(st, 2 * a)

rc_drive_address(st, a) == drive_address(st, a)         \* line 232
rc_astb_high(st) == digitalWrite(st, ASTB, HIGH)        \* line 233
rc_astb_low(st) == digitalWrite(st, ASTB, LOW)          \* line 234
rc_tristate(st) == tristate_data_pins(st)               \* line 235
rc_rd_low(st) == digitalWrite(st, RD, LOW)              \* line 236
rc_bufen_low(st) == digitalWrite(st, BUFEN, LOW)        \* line 237
rc_delay(st) == delayMicroseconds(st, 1)                \* line 238
rc_read(st, d) == read_data(st, d)                      \* line 239
rc_bufen_high(st) == digitalWrite(st, BUFEN, HIGH)      \* line 240
rc_rd_high(st) == digitalWrite(st, RD, HIGH)            \* line 241

(***************************************************************************)
(* The target board during a read cycle: an address latch strobed by ASTB  *)
(* and a memory that puts the byte of the latched address on the data      *)
(* lines while RD is low.                                                  *)
(***************************************************************************)
\* the address the 20 lines carry (a line that is not driven counts as low)
RECURSIVE AddressOnLinesFrom(_, _)
AddressOnLinesFrom(st, i) ==
    IF i >= ADDRESS_BUS_WIDTH THEN 0
    ELSE (IF LineLevel(st, bus_pins[i + 1]) = HIGH THEN 2 ^ i ELSE 0)
         + AddressOnLinesFrom(st, i + 1)

AddressOnLines(st) == AddressOnLinesFrom(st, 0)

MemByte(a) == IF a \in DOMAIN mem THEN mem[a] ELSE 255

\* what the data lines may carry: the addressed byte while RD is low, anything
\* (here all zeros or all ones) while nothing drives them
DataBusBytes ==
    IF LineLevel(io, RD) = LOW THEN { MemByte(latched) } ELSE { 0, 255 }

\* a step of bus_read_cycle that only acts on the pins
RcPinStep(from, to, st) ==
    /\ pc = from
    /\ pc' = to
    /\ io' = st
    /\ UNCHANGED << file_number, filename, dumpfile, addr, value, hldak, card,
                    latchOnInput, mem, latched, cycles, samples, failed, opened, serial >>

RcDriveAddress == RcPinStep("rc_drive_address", "rc_astb_high", rc_drive_address(io, addr))
RcAstbHigh == RcPinStep("rc_astb_high", "rc_astb_low", rc_astb_high(io))

\* line 234: on the falling edge of ASTB the target's latch takes the address
\* that is on the lines
RcAstbLow ==
    /\ pc = "rc_astb_low"
    /\ io' = rc_astb_low(io)
    /\ latched' = IF LineLevel(io, ASTB) = HIGH /\ LineLevel(io', ASTB) = LOW
                  THEN AddressOnLines(io')
                  ELSE latched
    /\ pc' = "rc_tristate"
    /\ UNCHANGED << file_number, filename, dumpfile, addr, value, hldak, card,
                    latchOnInput, mem, cycles, samples, failed, opened, serial >>

RcTristate == RcPinStep("rc_tristate", "rc_rd_low", rc_tristate(io))
RcRdLow == RcPinStep("rc_rd_low", "rc_bufen_low", rc_rd_low(io))
RcBufenLow == RcPinStep("rc_bufen_low", "rc_delay", rc_bufen_low(io))
RcDelay == RcPinStep("rc_delay", "rc_read", rc_delay(io))

RcRead ==
    /\ pc = "rc_read"
    /\ \E d \in DataBusBytes : value' = rc_read(io, d)
    /\ io' = read_data_log(io)
    /\ pc' = "rc_bufen_high"
    /\ UNCHANGED << file_number, filename, dumpfile, addr, hldak, card,
                    latchOnInput, mem, latched, cycles, samples, failed, opened, serial >>

RcBufenHigh == RcPinStep("rc_bufen_high", "rc_rd_high", rc_bufen_high(io))

\* line 241 and the return of value (line 243)
RcRdHigh ==
    /\ pc = "rc_rd_high"
    /\ io' = rc_rd_high(io)
    /\ samples' = Append(samples, value)
    /\ pc' = "write"
    /\ UNCHANGED << file_number, filename, dumpfile, addr, value, hldak, card,
                    latchOnInput, mem, latched, cycles, failed, opened, serial >>

(***************************************************************************)
(* SD card files                                                           *)
(***************************************************************************)
\* sd.open(name, FILE_WRITE): create the file if it is not there, keep what
\* it holds if it is, and position at its end
sd_open(c, name) ==
    [f \in (DOMAIN c) \cup { name } |-> IF f \in DOMAIN c THEN c[f] ELSE << >>]

\* a write that succeeds puts the byte at the end of the file
file_write(c, name, b) == [c EXCEPT ![name] = Append(@, b)]

(***************************************************************************)
(* loop()                                                                  *)
(***************************************************************************)
\* line 289: read one character, leave the wait on a newline
WaitEnter ==
    /\ pc = "prompt"
    /\ \E c \in { "\n", "x" } : pc' = IF c = "\n" THEN "seize" ELSE "prompt"
    /\ UNCHANGED << file_number, filename, dumpfile, addr, value, io, hldak, card,
                    latchOnInput, mem, latched, cycles, samples, failed, opened, serial >>

\* line 292
seize(st) == digitalWrite(st, HLDRQ, BUS_HOLD)

Seize ==
    /\ pc = "seize"
    /\ io' = seize(io)
    /\ serial' = << "Seizing the bus ... " >>             \* line 291; the record starts anew
    /\ pc' = "wait_ack"
    /\ UNCHANGED << file_number, filename, dumpfile, addr, value, hldak, card,
                    latchOnInput, mem, latched, cycles, samples, failed, opened >>

\* mutant of ack_wait_over: the sense of the test inverted
ack_wait_over_inverted(v) == v # BUS_ACK

\* mutant of ack_wait_over: the wait is left without looking at HLDAK
ack_wait_over_always(v) == TRUE

\* line 293: the wait ends when digitalRead(HLDAK) != BUS_ACK is false
ack_wait_over(v) == ~(v # BUS_ACK)

WaitAck ==
    /\ pc = "wait_ack"
    /\ ack_wait_over(digitalRead(io, HLDAK, hldak))
    /\ serial' = Say("ok")                                \* line 294
    /\ pc' = "driven_idle"
    /\ UNCHANGED << file_number, filename, dumpfile, addr, value, io, hldak, card,
                    latchOnInput, mem, latched, cycles, samples, failed, opened >>

\* line 298
DrivenIdle ==
    /\ pc = "driven_idle"
    /\ io' = bus_state_driven_idle(io)
    /\ pc' = "open"
    /\ UNCHANGED << file_number, filename, dumpfile, addr, value, hldak, card,
                    latchOnInput, mem, latched, cycles, samples, failed, opened, serial >>

\* mutant of open_failed: the result of sd.open is not tested
open_failed_ignored(f) == FALSE

\* line 302: if (!dumpfile), f the File object sd.open returned
open_failed(f) == f = << >>

\* lines 301-311: open the file, hang if that failed, else start the loop at 0
Open ==
    /\ pc = "open"
    /\ \E ok \in BOOLEAN :
         IF ok
         THEN /\ card' = sd_open(card, filename)
              /\ dumpfile' = filename
              /\ opened' = Append(opened, [name |-> filename,
                                           number |-> file_number,
                                           existed |-> sd_exists(filename),
                                           size |-> Len(sd_open(card, filename)[filename])])
         ELSE UNCHANGED << card, dumpfile, opened >>
    /\ IF open_failed(dumpfile')
       THEN /\ serial' = Say("Failed to open")
            /\ pc' = "halt_open"       \* while (1);
            /\ UNCHANGED << addr, cycles, samples, failed >>
       ELSE /\ serial' = Say("Dumping ...")
            /\ addr' = 0
            /\ cycles' = << >>
            /\ samples' = << >>
            /\ failed' = { }
            /\ pc' = "dump"
    /\ UNCHANGED << file_number, filename, value, io, hldak, latchOnInput, mem, latched >>

\* mutant of next_addr: every second address
next_addr_skip(a) == a + 2

\* line 311: the loop condition and the increment (addr is a 32-bit unsigned
\* long and never exceeds the last address plus one, so addr++ cannot wrap)
loop_continues(a) == a <= MaxAddr
next_addr(a) == a + 1

\* line 311-312: test the condition; if it holds, call bus_read_cycle(addr)
DumpTest ==
    /\ pc = "dump"
    /\ IF loop_continues(addr)
       THEN /\ pc' = "rc_drive_address"
            /\ cycles' = Append(cycles, addr)
            /\ io' = [io EXCEPT !.log = << >>]     \* the recorder starts a new cycle
       ELSE /\ pc' = "close"
            /\ UNCHANGED << cycles, io >>
    /\ UNCHANGED << file_number, filename, dumpfile, addr, value, hldak, card,
                    latchOnInput, mem, latched, samples, failed, opened, serial >>

\* line 312: dumpfile.write(value), its result ignored, then addr++
Write ==
    /\ pc = "write"
    /\ \E ok \in BOOLEAN :
         IF ok
         THEN /\ card' = file_write(card, dumpfile, value)
              /\ UNCHANGED failed
         ELSE /\ failed' = failed \cup { addr }
              /\ UNCHANGED card
    /\ addr' = next_addr(addr)
    /\ pc' = "dump"
    /\ UNCHANGED << file_number, filename, dumpfile, value, io, hldak,
                    latchOnInput, mem, latched, cycles, samples, opened, serial >>

\* mutant of after_close: a failed close stops the sketch
after_close_halting(ok) == IF ok THEN "release" ELSE "halt_close"

\* lines 316-322: the if has no else and no exit, the sketch goes on to the
\* release whatever close() returned
after_close(ok) == "release"

\* lines 316-320: a failed close is reported and changes nothing else in the
\* sketch; either way the File object is closed
Close ==
    /\ pc = "close"
    /\ \E ok \in BOOLEAN :
         /\ serial' = IF ok THEN serial ELSE Say("Failed to close")
         /\ pc' = after_close(ok)
    /\ dumpfile' = << >>
    /\ UNCHANGED << file_number, filename, addr, value, io, hldak, card,
                    latchOnInput, mem, latched, cycles, samples, failed, opened >>

\* line 324
release(st) == digitalWrite(st, HLDRQ, BUS_RELEASE)

Release ==
    /\ pc = "release"
    /\ io' = release(io)
    /\ serial' = Say("Releasing the bus ... ")            \* line 323
    /\ pc' = "wait_nak"
    /\ UNCHANGED << file_number, filename, dumpfile, addr, value, hldak, card,
                    latchOnInput, mem, latched, cycles, samples, failed, opened >>

\* mutant of nak_wait_over: the sense of the test inverted
nak_wait_over_inverted(v) == v = BUS_ACK

\* line 325: the wait ends when digitalRead(HLDAK) == BUS_ACK is false
nak_wait_over(v) == ~(v = BUS_ACK)

WaitNak ==
    /\ pc = "wait_nak"
    /\ nak_wait_over(digitalRead(io, HLDAK, hldak))
    /\ serial' = Say("ok")                                \* line 326
    /\ pc' = "advance"
    /\ UNCHANGED << file_number, filename, dumpfile, addr, value, io, hldak, card,
                    latchOnInput, mem, latched, cycles, samples, failed, opened >>

\* lines 328-334: report the file name, then next_file()
Advance ==
    /\ pc = "advance"
    /\ next_file("prompt")
    /\ serial' = IF pc' = "prompt"
                 THEN Say("Memory dumped to file") \o << Prompt >>
                 ELSE Say("Memory dumped to file")
    /\ UNCHANGED << dumpfile, addr, value, io, hldak, card,
                    latchOnInput, mem, latched, cycles, samples, failed, opened >>

(***************************************************************************)
(* The V20: it answers a hold request with HLDAK and withdraws HLDAK after *)
(* the request is withdrawn.                                               *)
(***************************************************************************)
TargetAck ==
    /\ LineLevel(io, HLDRQ) = BUS_HOLD
    /\ hldak = BUS_NAK
    /\ hldak' = BUS_ACK
    /\ UNCHANGED << pc, file_number, filename, dumpfile, addr, value, io, card,
                    latchOnInput, mem, latched, cycles, samples, failed, opened, serial >>

TargetNak ==
    /\ LineLevel(io, HLDRQ) = BUS_RELEASE
    /\ hldak = BUS_ACK
    /\ hldak' = BUS_NAK
    /\ UNCHANGED << pc, file_number, filename, dumpfile, addr, value, io, card,
                    latchOnInput, mem, latched, cycles, samples, failed, opened, serial >>

(***************************************************************************)
(* Specifications                                                          *)
(***************************************************************************)
\* the statements the processor executes without waiting for anybody
Run ==
    \/ SetupPins \/ SdBegin \/ Probe \/ SetupReport
    \/ Seize \/ WaitAck \/ DrivenIdle \/ Open \/ DumpTest
    \/ RcDriveAddress \/ RcAstbHigh \/ RcAstbLow \/ RcTristate \/ RcRdLow
    \/ RcBufenLow \/ RcDelay \/ RcRead \/ RcBufenHigh \/ RcRdHigh
    \/ Write \/ Close \/ Release \/ WaitNak \/ Advance

Next == Run \/ WaitEnter \/ TargetAck \/ TargetNak

Spec == Init /\ [][Next]_vars

\* the processor keeps executing; nothing is assumed of the operator or the V20
FairSpec == Spec /\ WF_vars(Run)

\* the processor keeps executing and the V20 answers: it raises HLDAK some time
\* after a hold request and lowers it some time after the request is withdrawn
LiveSpec == Spec /\ WF_vars(Run) /\ WF_vars(TargetAck) /\ WF_vars(TargetNak)

(***************************************************************************)
(* Vocabulary of the properties                                            *)
(***************************************************************************)
ReadCyclePcs ==
    { "rc_drive_address", "rc_astb_high", "rc_astb_low", "rc_tristate", "rc_rd_low",
      "rc_bufen_low", "rc_delay", "rc_read", "rc_bufen_high", "rc_rd_high" }

\* between a successful open and the end of the release wait
CapturePcs == { "dump", "write", "close", "release", "wait_nak" } \cup ReadCyclePcs

\* the bus ownership state of the specification, read off the sketch's position
BusOwnership ==
    IF pc = "wait_ack" THEN "Requested"
    ELSE IF pc \in { "driven_idle", "open", "halt_open" } \cup CapturePcs THEN "Held"
    ELSE "Released"

\* the file of the capture in progress or last completed
CaptureFile == opened[Len(opened)].name

\* what a line recorder must show for one read cycle of address a
ExpectedDrive(a) ==
    [k \in 1..40 |->
        IF k % 2 = 1
        THEN << "pinMode", bus_pins[(k + 1) \div 2], OUTPUT >>
        ELSE << "digitalWrite", bus_pins[k \div 2],
                IF Bit(a, (k \div 2) - 1) = 1 THEN HIGH ELSE LOW >>]

ExpectedCycle(a) ==
    ExpectedDrive(a)
    \o << << "digitalWrite", ASTB, HIGH >>, << "digitalWrite", ASTB, LOW >> >>
    \o [k \in 1..8 |-> << "pinMode", bus_pins[k], INPUT >>]
    \o << << "digitalWrite", RD, LOW >>, << "digitalWrite", BUFEN, LOW >>,
          << "delayMicroseconds", 1 >> >>
    \o [k \in 1..8 |-> << "digitalRead", bus_pins[k] >>]
    \o << << "digitalWrite", BUFEN, HIGH >>, << "digitalWrite", RD, HIGH >> >>

IsPrefix(s, t) == Len(s) <= Len(t) /\ s = SubSeq(t, 1, Len(s))

(***************************************************************************)
(* C1: one call of bus_read_cycle(a) produces exactly this sequence of     *)
(* pin events and no others: the 20 address lines set to output with the   *)
(* bits of a, ASTB high, ASTB low, the low 8 lines set to input, RD low,   *)
(* BUFEN low, the settle delay, the 8 low lines sampled, BUFEN high, RD    *)
(* high; and ASTB, RD and BUFEN are driven while it runs, so each write is *)
(* visible on its line.                                                    *)
(***************************************************************************)
C1_ReadCycleEvents ==
    /\ pc \in ReadCyclePcs =>
         /\ IsPrefix(io.log, ExpectedCycle(addr))
         /\ Len(io.log) < Len(ExpectedCycle(addr))
         /\ \A p \in { ASTB, RD, BUFEN } : Driven(io, p)
    /\ pc = "write" => io.log = ExpectedCycle(addr)

C1_Witness == pc = "write" /\ addr = MaxAddr /\ Len(io.log) = 63

(***************************************************************************)
(* C2: in a capture that got past the creation of its file, bus_read_cycle *)
(* is called with 0, 1, 2, ... in this order, once each, whatever the      *)
(* outcome of the byte writes, and the loop ends after the call for the    *)
(* last address.                                                           *)
(***************************************************************************)
Ascending(n) == [k \in 1..n |-> k - 1]

LoopPcs == ReadCyclePcs \cup { "dump", "write" }

C2_CyclesSoFar ==
    /\ pc = "dump" => cycles = Ascending(addr) /\ addr <= MaxAddr + 1
    /\ pc \in ReadCyclePcs \cup { "write" } => cycles = Ascending(addr + 1) /\ addr <= MaxAddr
    /\ pc \in { "close", "release", "wait_nak", "advance" } => cycles = Ascending(MaxAddr + 1)

\* the loop is left only for the close, and only past the last address
C2_LoopStep ==
    (pc \in LoopPcs /\ pc' \notin LoopPcs) =>
        pc' = "close" /\ addr = MaxAddr + 1 /\ cycles' = Ascending(MaxAddr + 1)

C2_EveryAddressOnce ==
    /\ [] C2_CyclesSoFar
    /\ [][C2_LoopStep]_vars
    /\ (pc \in LoopPcs) ~> (pc = "close")

C2_Witness ==
    pc = "close" /\ cycles = Ascending(MaxAddr + 1) /\ failed = 0..MaxAddr

(***************************************************************************)
(* C3: bus ownership only moves Released -> Requested -> Held -> Released; *)
(* it becomes Requested by asserting HLDRQ, Held only when HLDAK is seen   *)
(* high with HLDRQ asserted, and Released again only when HLDAK is seen    *)
(* low with HLDRQ deasserted.                                              *)
(***************************************************************************)
C3_OwnershipStep ==
    /\ BusOwnership = "Released" /\ BusOwnership' # "Released" =>
         /\ BusOwnership' = "Requested"
         /\ LineLevel(io', HLDRQ) = BUS_HOLD
    /\ BusOwnership = "Requested" /\ BusOwnership' # "Requested" =>
         /\ BusOwnership' = "Held"
         /\ LineLevel(io, HLDRQ) = BUS_HOLD
         /\ hldak = BUS_ACK
    /\ BusOwnership = "Held" /\ BusOwnership' # "Held" =>
         /\ BusOwnership' = "Released"
         /\ LineLevel(io, HLDRQ) = BUS_RELEASE
         /\ hldak = BUS_NAK

C3_OwnershipOrder == [][C3_OwnershipStep]_vars

C3_Witness == BusOwnership = "Held" /\ Len(opened) = 2 /\ pc = "wait_nak" /\ hldak = BUS_NAK

(***************************************************************************)
(* C4: where the sketch has deasserted HLDRQ at the end of a capture, and  *)
(* wherever ownership is Released after a capture, none of the 20          *)
(* address/data lines and none of ASTB, BUFEN, BUFRW, IOMEM, RD, WR is     *)
(* driven.                                                                 *)
(***************************************************************************)
C4_FloatingAtRelease ==
    (pc = "wait_nak" \/ (BusOwnership = "Released" /\ opened # << >>)) =>
        \A p \in BusPins \cup ControlPins : ~Driven(io, p)

(***************************************************************************)
(* C5: the file of a capture that ran to completion holds exactly one byte *)
(* per address (2^20 in the sketch), whichever byte writes failed.         *)
(***************************************************************************)
CaptureDone == pc \in { "release", "wait_nak", "advance" }

C5_ExactLength ==
    CaptureDone => Len(card[CaptureFile]) = MaxAddr + 1

(***************************************************************************)
(* C6: after a capture in which every byte write succeeded, the file named *)
(* by the capture's file number holds at every offset k the byte that      *)
(* bus_read_cycle(k) returned, and nothing else.                           *)
(***************************************************************************)
C6_FileIsImage ==
    (CaptureDone /\ failed = { }) =>
        /\ CaptureFile = SlotName(file_number)
        /\ card[CaptureFile] = samples

(***************************************************************************)
(* C7 as claimed: in a read cycle RD is never active (driven low) while    *)
(* BUFEN is inactive.                                                      *)
(***************************************************************************)
Active(p) == LineLevel(io, p) = LOW

C7_BufenBracketsRd ==
    (pc \in ReadCyclePcs /\ Active(RD)) => Active(BUFEN)

(***************************************************************************)
(* C7 as amended: in every read cycle the read-enable interval brackets    *)
(* the buffer-enable interval.  RD is asserted before BUFEN and deasserted *)
(* after it, both are active while the byte is sampled, and BUFEN is never *)
(* active while RD is inactive.                                            *)
(***************************************************************************)
C7_RdBracketsBufen ==
    /\ Active(BUFEN) => Active(RD)
    /\ pc = "rc_bufen_low" => Active(RD)
    /\ pc \in { "rc_delay", "rc_read", "rc_bufen_high" } => Active(RD) /\ Active(BUFEN)
    /\ pc = "rc_rd_high" => Active(RD) /\ LineLevel(io, BUFEN) = HIGH
    /\ pc = "write" => LineLevel(io, RD) = HIGH /\ LineLevel(io, BUFEN) = HIGH

C7_Witness == pc = "rc_rd_high" /\ Active(RD) /\ ~Active(BUFEN) /\ addr = MaxAddr

(***************************************************************************)
(* C8: if the card does not hold all of the files 000..999 at startup, the *)
(* startup probe ends, with file_number the smallest number whose file is  *)
(* not on the card (0 on an empty card, n when 0..n-1 exist).              *)
(***************************************************************************)
OnCard == { n \in 0..MaxFileNumber : SlotName(n) \in DOMAIN card }
Missing == (0..MaxFileNumber) \ OnCard
AtStartup == opened = << >>

C8_ProbeFindsFirstFree ==
    /\ pc = "setup_report" =>
         /\ file_number \in Missing
         /\ \A n \in Missing : file_number <= n
         /\ filename = SlotName(file_number)
    /\ (AtStartup /\ pc = "halt_full") => Missing = { }
    /\ (pc = "probe" /\ Missing # { }) =>
         /\ \A n \in Missing : file_number <= n
         /\ \A n \in 0..(file_number - 1) : n \in OnCard

C8_Witness == pc = "setup_report" /\ file_number = MaxFileNumber /\ OnCard = 0..(MaxFileNumber - 1)

(***************************************************************************)
(* C9: advancing from the last file number halts the sketch for good       *)
(* instead of wrapping around.  Wherever a capture is prompted for,        *)
(* started or writing, file_number is in 0..999 and filename is CWMEM, the *)
(* three decimal digits of file_number, .BIN; and no capture follows one   *)
(* that used the last number.                                              *)
(***************************************************************************)
PromptedOrCapturing ==
    pc \in { "prompt", "seize", "wait_ack", "driven_idle", "open", "halt_open", "advance" }
           \cup CapturePcs

DigitValue(ch) == CHOOSE d \in 0..9 : Digits[d + 1] = ch

C9_NamedWithinRange ==
    /\ PromptedOrCapturing =>
         /\ file_number \in 0..MaxFileNumber
         /\ Len(filename) = 12
         /\ SubSeq(filename, 1, 5) = << "C", "W", "M", "E", "M" >>
         /\ SubSeq(filename, 9, 12) = << ".", "B", "I", "N" >>
         /\ \A k \in 6..8 : \E d \in 0..9 : Digits[d + 1] = filename[k]
         /\ 100 * DigitValue(filename[6]) + 10 * DigitValue(filename[7])
              + DigitValue(filename[8]) = file_number
    /\ \A k \in 1..Len(opened) :
         /\ opened[k].number \in 0..MaxFileNumber
         /\ k < Len(opened) => opened[k].number < opened[k + 1].number

C9_AdvanceStep ==
    /\ (pc = "advance" /\ file_number = MaxFileNumber) => pc' = "halt_full"
    /\ file_number' # file_number =>
         /\ file_number' = file_number + 1
         /\ file_number = MaxFileNumber => pc' = "halt_full"
    /\ pc = "halt_full" => pc' = "halt_full" /\ opened' = opened

C9_NoWraparound == [] C9_NamedWithinRange /\ [][C9_AdvanceStep]_vars

C9_Witness ==
    /\ pc = "halt_full"
    /\ opened # << >>
    /\ opened[Len(opened)].number = MaxFileNumber
    /\ file_number = MaxFileNumber + 1

(***************************************************************************)
(* C10: when the files of all numbers 000..999 are on the card at startup, *)
(* the sketch reaches the fatal halt during the startup probe; in that     *)
(* execution HLDRQ is never asserted, no bus or control line is driven and *)
(* no file is opened.                                                      *)
(***************************************************************************)
StartupFull == AtStartup /\ Missing = { }

C10_QuietWhenFull ==
    StartupFull =>
        /\ pc \in { "setup", "sd_begin", "halt_sd", "probe", "halt_full" }
        /\ LineLevel(io, HLDRQ) # BUS_HOLD
        /\ \A p \in BusPins \cup ControlPins : ~Driven(io, p)
        /\ dumpfile = << >>
        /\ pc = "halt_full" => file_number = MaxFileNumber + 1

\* a full card stays full and unopened, and the probe only counts up or halts
C10_ProbeStep ==
    StartupFull =>
        /\ StartupFull'
        /\ pc = "probe" =>
             \/ pc' = "probe" /\ file_number' = file_number + 1
             \/ pc' = "halt_full"

C10_FullCardHalts ==
    /\ [] C10_QuietWhenFull
    /\ [][C10_ProbeStep]_vars
    /\ (StartupFull /\ pc = "probe") ~> (StartupFull /\ pc = "halt_full")

C10_Witness == StartupFull /\ pc = "halt_full"

Range(q) == { q[k] : k \in DOMAIN q }

(***************************************************************************)
(* C11: while the V20 does not raise HLDAK after HLDRQ was asserted, the   *)
(* sketch stays in the acquire wait: no control or address line is driven, *)
(* no file is opened, no read cycle is performed, file_number does not     *)
(* change, nothing is printed and no halt is reached.                      *)
(***************************************************************************)
AcquireBlocked == pc = "wait_ack" /\ hldak = BUS_NAK

C11_QuietInWait ==
    AcquireBlocked =>
        /\ LineLevel(io, HLDRQ) = BUS_HOLD
        /\ dumpfile = << >>
        /\ \A p \in BusPins \cup ControlPins : ~Driven(io, p)

C11_BlockedStep ==
    (AcquireBlocked /\ hldak' = BUS_NAK) =>
        /\ pc' = "wait_ack"
        /\ UNCHANGED << io, file_number, filename, dumpfile, card, opened, cycles,
                        samples, serial >>

C11_BlockedForever == [] C11_QuietInWait /\ [][C11_BlockedStep]_vars

(***************************************************************************)
(* C12: drive_address and bus_read_cycle only run while the bus is Held:   *)
(* HLDRQ is asserted, the V20 holds HLDAK high, and in the current capture *)
(* the acknowledge was seen and the release has not begun.  No address     *)
(* line is put in output mode anywhere else.                               *)
(***************************************************************************)
C12_HeldInCycle ==
    pc \in ReadCyclePcs =>
        /\ BusOwnership = "Held"
        /\ LineLevel(io, HLDRQ) = BUS_HOLD
        /\ hldak = BUS_ACK
        /\ serial = << "Seizing the bus ... ", "ok", "Dumping ..." >>

C12_DriveStep ==
    (\E p \in BusPins : ~Driven(io, p) /\ Driven(io', p)) =>
        /\ pc = "rc_drive_address"
        /\ LineLevel(io, HLDRQ) = BUS_HOLD
        /\ hldak = BUS_ACK

C12_CyclesOnlyWhenHeld == [] C12_HeldInCycle /\ [][C12_DriveStep]_vars

C12_Witness == pc = "rc_read" /\ Len(opened) = 2 /\ addr = MaxAddr /\ hldak = BUS_ACK

(***************************************************************************)
(* C13: when sd.open fails the sketch hangs for good.  It reports the      *)
(* failure, and from then on performs no read cycle, does not change       *)
(* file_number, prints no completion report and starts no other capture.   *)
(***************************************************************************)
C13_HaltedOnOpen ==
    pc = "halt_open" =>
        /\ dumpfile = << >>
        /\ serial = << "Seizing the bus ... ", "ok", "Failed to open" >>
        /\ \A k \in 1..Len(opened) : opened[k].number < file_number

C13_OpenFailureStep ==
    /\ (pc = "open" /\ dumpfile' = << >>) =>
         /\ pc' = "halt_open"
         /\ UNCHANGED << file_number, filename, card, opened, cycles, samples, io >>
    /\ pc = "halt_open" =>
         /\ pc' = "halt_open"
         /\ UNCHANGED << file_number, filename, dumpfile, card, opened, cycles,
                         samples, io, serial >>

C13_OpenFailureHalts == [] C13_HaltedOnOpen /\ [][C13_OpenFailureStep]_vars

C13_Witness == pc = "halt_open" /\ Len(opened) = 1 /\ hldak = BUS_ACK

(***************************************************************************)
(* C14: when dumpfile.close() fails after the last address, the failure is *)
(* reported and the capture goes on as after a successful close: no read   *)
(* cycle follows, the file is left as written, HLDRQ is deasserted and the *)
(* sketch waits for HLDAK to go low, and file_number advances by exactly   *)
(* one.                                                                    *)
(***************************************************************************)
CloseFailed == "Failed to close" \in Range(serial)

C14_AfterFailedClose ==
    CloseFailed =>
        /\ pc \in { "release", "wait_nak", "advance", "prompt", "seize", "halt_full" }
        /\ dumpfile = << >>
        /\ cycles = Ascending(MaxAddr + 1)
        /\ pc \in { "wait_nak", "advance" } => LineLevel(io, HLDRQ) = BUS_RELEASE
        /\ pc \in { "prompt", "seize", "halt_full" } =>
             /\ LineLevel(io, HLDRQ) = BUS_RELEASE
             /\ hldak = BUS_NAK
             /\ "Memory dumped to file" \in Range(serial)
             /\ file_number = opened[Len(opened)].number + 1

C14_FailedCloseStep ==
    /\ pc = "close" =>
         /\ pc' = "release"
         /\ serial' \in { serial, Say("Failed to close") }
         /\ UNCHANGED << card, file_number, cycles, samples, io >>
    /\ CloseFailed =>
         /\ UNCHANGED << card, cycles, samples >>
         /\ pc = "release" => pc' = "wait_nak" /\ LineLevel(io', HLDRQ) = BUS_RELEASE
         /\ (pc = "wait_nak" /\ pc' # pc) =>
              pc' = "advance" /\ hldak = BUS_NAK /\ LineLevel(io, HLDRQ) = BUS_RELEASE
         /\ pc = "advance" =>
              /\ file_number' = file_number + 1
              /\ pc' \in { "prompt", "halt_full" }

C14_FailedCloseGoesOn == [] C14_AfterFailedClose /\ [][C14_FailedCloseStep]_vars

C14_Witness ==
    /\ pc = "prompt"
    /\ CloseFailed
    /\ Len(opened) = 1
    /\ file_number = opened[1].number + 1
    /\ SlotName(opened[1].number) \in DOMAIN card

(***************************************************************************)
(* C15: whenever the byte is sampled the low 8 address/data lines are in   *)
(* input mode, and while RD is asserted during a capture none of those 8   *)
(* lines is in output mode, so the sketch and the target memory never      *)
(* drive the data lines together.                                          *)
(***************************************************************************)
DataPins == { bus_pins[i] : i \in 1..DATA_BUS_WIDTH }

DataLinesReleased == \A p \in DataPins : ~Driven(io, p)

C15_DataLinesReleasedWhileRead ==
    /\ pc = "rc_read" => DataLinesReleased
    /\ (BusOwnership = "Held" /\ Active(RD)) => DataLinesReleased

(***************************************************************************)
(* C16: in the read cycle of address a, when ASTB falls all 20 address     *)
(* lines are in output mode and line i carries bit i of a, so the latch    *)
(* takes a; lines 8..19 stay driven with bits 8..19 of a until the byte    *)
(* has been sampled.  drive_address does this for any 20-bit address.      *)
(***************************************************************************)
SampleAddresses == { 0, 1, 2, 255, 256, 43690, 349525, 2 ^ 19, (2 ^ 20) - 1 }

Carries(st, a, lines) ==
    \A i \in lines :
        /\ Driven(st, bus_pins[i + 1])
        /\ LineLevel(st, bus_pins[i + 1]) = Level(Bit(a, i))

C16_AddressOnTheLines ==
    /\ pc = "rc_drive_address" =>
         \A a \in SampleAddresses :
             /\ Carries(rc_drive_address(io, a), a, 0..19)
             /\ AddressOnLines(rc_drive_address(io, a)) = a
    /\ pc \in { "rc_astb_high", "rc_astb_low" } =>
         Carries(io, addr, 0..19) /\ AddressOnLines(io) = addr
    /\ pc \in { "rc_tristate", "rc_rd_low", "rc_bufen_low", "rc_delay", "rc_read" } =>
         Carries(io, addr, 8..19) /\ latched = addr

C16_LatchStep ==
    (LineLevel(io, ASTB) = HIGH /\ LineLevel(io', ASTB) = LOW) =>
        /\ pc = "rc_astb_low"
        /\ Carries(io', addr, 0..19)
        /\ AddressOnLines(io') = addr
        /\ latched' = addr

C16_LatchTakesAddress == [] C16_AddressOnTheLines /\ [][C16_LatchStep]_vars

C16_Witness ==
    /\ pc = "rc_read"
    /\ addr = MaxAddr
    /\ latched = MaxAddr
    /\ Carries(io, MaxAddr, 8..19)
    /\ Len(opened) = 2

(***************************************************************************)
(* C17: whatever files the card holds at startup and however many captures *)
(* are made, every capture opens a name for which no file exists at that   *)
(* moment, so it starts from an empty file.                                *)
(***************************************************************************)
C17_OpensOnlyFreshNames ==
    \A k \in 1..Len(opened) : ~opened[k].existed /\ opened[k].size = 0

(***************************************************************************)
(* C18: wherever the sketch has halted for good (sd.begin failed, sd.open  *)
(* failed, file numbers exhausted), HLDRQ is deasserted.                   *)
(***************************************************************************)
Halted == pc \in { "halt_sd", "halt_open", "halt_full" }

C18_HaltsWithBusReleased == Halted => LineLevel(io, HLDRQ) = BUS_RELEASE

(***************************************************************************)
(* C19: whenever the sketch drives the control lines, WR is high, IOMEM    *)
(* is low and BUFRW is low, and at the start and at the end of every read  *)
(* cycle ASTB is low and RD and BUFEN are high.                            *)
(***************************************************************************)
C19_ReadOnlyControlLevels ==
    /\ Driven(io, WR) => LineLevel(io, WR) = HIGH
    /\ Driven(io, IOMEM) => LineLevel(io, IOMEM) = LOW
    /\ Driven(io, BUFRW) => LineLevel(io, BUFRW) = LOW
    /\ pc \in { "rc_drive_address", "write" } =>
         /\ LineLevel(io, ASTB) = LOW
         /\ LineLevel(io, RD) = HIGH
         /\ LineLevel(io, BUFEN) = HIGH

(***************************************************************************)
(* C20: if the V20 raises HLDAK after every hold request and lowers it     *)
(* after every release, a capture the operator confirmed with file_number  *)
(* below the last number either stops at a failed sd.open or finishes:     *)
(* HLDRQ is deasserted, file_number is one higher and the sketch prompts   *)
(* again.  Between the two file_number does not change.                    *)
(***************************************************************************)
Confirmed(n) == pc = "seize" /\ file_number = n

Finished(n) ==
    /\ pc = "prompt"
    /\ file_number = n + 1
    /\ LineLevel(io, HLDRQ) = BUS_RELEASE
    /\ "Memory dumped to file" \in Range(serial)

C20_CaptureStep ==
    /\ (pc \in CapturePcs \cup { "seize", "wait_ack", "driven_idle", "open" }) =>
         file_number' = file_number
    /\ (pc = "advance" /\ pc' # pc /\ file_number < MaxFileNumber) =>
         pc' = "prompt" /\ file_number' = file_number + 1

C20_CaptureFinishes ==
    /\ [][C20_CaptureStep]_vars
    /\ \A n \in 0..(MaxFileNumber - 1) :
         Confirmed(n) ~> (pc = "halt_open" \/ Finished(n))

C20_Witness ==
    /\ Finished(MaxFileNumber - 1)
    /\ Len(opened) = 1
    /\ opened[1].number = MaxFileNumber - 1
    /\ hldak = BUS_NAK

=============================================================================
